---- MODULE Spec2Model ----
(***************************************************************************)
(* Connection-lifecycle manager of the MySQL MCP server: on-demand SSH     *)
(* tunnel (openTunnel / closeTunnel), idle timer, retry-once query runner  *)
(* (runQuery), the DatabaseClient pool, and the tool-call handler with its *)
(* validation helpers.                                                     *)
(*                                                                         *)
(* Scheduling model: Node's single-threaded event loop.  One action is the *)
(* code that runs between two awaits on real I/O (createTunnel,            *)
(* pool.execute, pool.end); awaits on already-settled promises do not let  *)
(* another tool call, timer or socket event in, so they do not split an    *)
(* action.                                                                 *)
(*                                                                         *)
(* Outside the repository: createTunnel (tunnel-ssh) either resolves with  *)
(* a listening server and a connected SSH client or rejects leaving        *)
(* neither; with autoClose: false and reconnectOnError: false it does      *)
(* nothing when the SSH connection ends.  Binding a port that a server of  *)
(* this process still listens on fails.  A promise rejection that nothing  *)
(* handles ends the Node process.  pool.execute and pool.end may resolve   *)
(* or reject; a query is only allowed to succeed while a server listens    *)
(* with its SSH connection up and the pool has not been ended, and is      *)
(* allowed to fail in any state.                                           *)
(***************************************************************************)
EXTENDS Integers, Sequences, FiniteSets, TLC

\* ---------------------------------------------------------------- bounds
\* Tool calls accepted in one run.
MaxCalls == 2
\* Termination signals delivered in one run.
MaxSigints == 1
\* longest argument string of the argument sweep
MaxLen == 5

\* Tool calls the transport may have in flight at once.
Procs == {1, 2}

NULL == "null"
\* the null of a handle that otherwise holds an object id
None == 0

\* ------------------------------------------------------- character strings
\* A string is a sequence of one-character strings.
UpperChars == <<"A","B","C","D","E","F","G","H","I","J","K","L","M",
                "N","O","P","Q","R","S","T","U","V","W","X","Y","Z">>
LowerChars == <<"a","b","c","d","e","f","g","h","i","j","k","l","m",
                "n","o","p","q","r","s","t","u","v","w","x","y","z">>
DigitChars == {"0","1","2","3","4","5","6","7","8","9"}
WhiteChars == {" ", "\t", "\n"}

Range(s) == {s[k] : k \in 1..Len(s)}

\* String.prototype.toLowerCase, one character
toLowerChar(c) ==
    IF \E k \in 1..26 : UpperChars[k] = c
    THEN LowerChars[CHOOSE k \in 1..26 : UpperChars[k] = c]
    ELSE c

toLowerCase(s) == [k \in 1..Len(s) |-> toLowerChar(s[k])]

\* String.prototype.trim: drops the whitespace at both ends
trim(s) ==
    LET nonWs == {k \in 1..Len(s) : s[k] \notin WhiteChars}
    IN  IF nonWs = {} THEN <<>>
        ELSE LET lo == CHOOSE k \in nonWs : \A j \in nonWs : k <= j
                 hi == CHOOSE k \in nonWs : \A j \in nonWs : k >= j
             IN  SubSeq(s, lo, hi)

\* String.prototype.startsWith
startsWith(s, p) == Len(s) >= Len(p) /\ SubSeq(s, 1, Len(p)) = p

\* String.prototype.includes
includes(s, p) == \E k \in 0..(Len(s) - Len(p)) : SubSeq(s, k + 1, k + Len(p)) = p

kwSelect   == <<"s","e","l","e","c","t">>
kwShow     == <<"s","h","o","w">>
kwDescribe == <<"d","e","s","c","r","i","b","e">>

\* a plausible slip: the keyword is looked for anywhere in the statement
isReadOnlyQuery_includes(sql) ==
    LET trimmed == toLowerCase(trim(sql))
    IN  includes(trimmed, kwSelect) \/ includes(trimmed, kwShow)
          \/ includes(trimmed, kwDescribe)

isReadOnlyQuery(sql) ==
    LET trimmed == toLowerCase(trim(sql))
    IN  startsWith(trimmed, kwSelect) \/ startsWith(trimmed, kwShow)
          \/ startsWith(trimmed, kwDescribe)

\* /[^a-zA-Z0-9_]/g replaced by ''
IdentChars == Range(UpperChars) \cup Range(LowerChars) \cup DigitChars \cup {"_"}

\* a plausible slip: the pattern without its g flag deletes the first match only
sanitizeTableName_first(table) ==
    LET bad == {k \in 1..Len(table) : table[k] \notin IdentChars}
    IN  IF bad = {} THEN table
        ELSE LET b == CHOOSE k \in bad : \A j \in bad : k <= j
             IN  SubSeq(table, 1, b - 1) \o SubSeq(table, b + 1, Len(table))

\* String.prototype.replace with /[^a-zA-Z0-9_]/g and ''
sanitizeTableName(table) == SelectSeq(table, LAMBDA c : c \in IdentChars)

\* ------------------------------------------------------------ tool inputs
sqlSelect   == <<" ","S","e","l","e","c","t"," ","1">>
sqlDrop     == <<"D","R","O","P"," ","t">>
sqlHidden   == <<"d","o"," ","s","h","o","w">>
sqlEmpty    == <<>>
SqlInputs   == {sqlSelect, sqlDrop, sqlHidden, sqlEmpty}

tblInject   == <<"t",";","-","-","x","_","1">>
TableInputs == {tblInject}

\* the argument sweep: every string up to MaxLen over a small alphabet, and a
\* few longer statements
ArgChars   == {" ", "S", "h", "o", "w", "x", ";"}
Strings(n) == UNION {[1..k -> ArgChars] : k \in 0..n}
sqlSelectx == <<"s","e","l","e","c","t","x"," ","1">>
sqlDescribe == <<"D","E","S","C","R","I","B","E"," ","t">>
AnySql     == Strings(MaxLen) \cup SqlInputs \cup {sqlSelectx, sqlDescribe}
AnyTable   == Strings(MaxLen) \cup TableInputs

stmtShowTables == <<"S","H","O","W"," ","T","A","B","L","E","S">>
stmtDescribe   == <<"D","E","S","C","R","I","B","E"," ">>
stmtSelect1    == <<"S","E","L","E","C","T"," ","1">>

ToolNames == {"read_query", "list_tables", "describe_table", "connect_db"}
\* what a request may name: the four tools, or anything else
RequestNames == ToolNames \cup {"other_tool"}

\* the arguments a tool call may carry
ArgsOf(name) ==
    CASE name = "read_query"     -> SqlInputs
      [] name = "describe_table" -> TableInputs
      [] OTHER                   -> {<<>>}

\* the statement each tool hands to dbClient.query
StatementOf(name, arg) ==
    CASE name = "read_query"     -> arg
      [] name = "list_tables"    -> stmtShowTables
      [] name = "describe_table" -> stmtDescribe \o sanitizeTableName(arg)
      [] OTHER                   -> stmtSelect1

\* ------------------------------------------------------------------ errors
Err(code, message) == [code |-> code, message |-> message]

NoOutcome     == Err(NULL, "")
OkOutcome     == Err("OK", "")
ErrRefused    == Err("ECONNREFUSED", "connect ECONNREFUSED")
ErrReset      == Err("ECONNRESET", "read ECONNRESET")
ErrProtocol   == Err("PROTOCOL_CONNECTION_LOST", "Connection lost: The server closed the connection.")
ErrLostMsg    == Err(NULL, "Connection lost: The server closed the connection.")
ErrSyntax     == Err("ER_PARSE_ERROR", "You have an error in your SQL syntax")
ErrPoolClosed == Err(NULL, "Pool is closed.")
QueryErrors   == {ErrRefused, ErrReset, ErrProtocol, ErrLostMsg, ErrSyntax, ErrPoolClosed}

ErrValidation == Err(NULL, "Only SELECT, SHOW, and DESCRIBE queries are allowed")
ErrTunnel     == Err(NULL, "Could not establish SSH tunnel to database server")
ErrKeyFile    == Err("ENOENT", "ENOENT: no such file or directory, open")
ErrPoolEnd    == Err(NULL, "pool.end failed")
ErrUnknown    == Err(NULL, "Unknown tool")

\* The transient-connection class: connection refused, connection reset, and
\* the protocol's "connection lost" by code or by message.
TransientErrors == {ErrRefused, ErrReset, ErrProtocol, ErrLostMsg}

\* history kept with a call: firstFailure, the class of the error its first
\* execution failed with, and last, the outcome of the execution that ended it
FailureClass(error) == IF error \in TransientErrors THEN "transient" ELSE "other"

\* error.message?.includes('Connection lost')
MessageHasConnectionLost(message) ==
    message \in {"Connection lost: The server closed the connection."}

\* a plausible slip: every failure is taken for a dead connection
isTransient_any(error) == TRUE

\* the condition of the if in runQuery's catch block
isTransient(error) ==
    \/ error.code = "ECONNREFUSED"
    \/ error.code = "ECONNRESET"
    \/ error.code = "PROTOCOL_CONNECTION_LOST"
    \/ MessageHasConnectionLost(error.message)

\* ---------------------------------------------------------------- payloads
NoPayload == [kind |-> "none", text |-> <<>>, connected |-> FALSE, tunnel |-> NULL]

\* the content returned with the rows of a query
RowsPayload == [kind |-> "result", text |-> <<"rows">>, connected |-> FALSE, tunnel |-> NULL]

\* a plausible slip: the tunnel is reported open without looking at the handle
StatusPayload_constOpen(isConnected, tunnelState) ==
    [kind |-> "result", text |-> <<"status">>, connected |-> isConnected, tunnel |-> "open"]

\* the content returned by connect_db
StatusPayload(isConnected, tunnelState) ==
    [kind |-> "result", text |-> <<"status">>, connected |-> isConnected, tunnel |-> tunnelState]

\* a plausible slip: the handler lets the error through
CatchToolError_rethrow(error) ==
    [kind |-> "thrown", text |-> <<error.message>>, connected |-> FALSE, tunnel |-> NULL]

\* the catch block of the tool-call handler
CatchToolError(error) ==
    [kind |-> "error", text |-> <<"Error: ", error.message>>, connected |-> FALSE, tunnel |-> NULL]

\* ------------------------------------------------------------------- state
VARIABLES
    sshTunnel,     \* the handle: None or the id of the tunnel it holds
    tunnels,       \* id -> [listener, conn]: the servers and SSH connections alive
    idleTimer,     \* None or the id of the timer it holds
    liveTimers,    \* timers scheduled and neither fired nor cleared
    pool,          \* DatabaseClient.pool: NULL, "open", or "closed" (end() called)
    inv,           \* the tool calls in flight
    timerClosers,  \* closeTunnel calls started by the idle timer, waiting in pool.end
    sigClosers,    \* closeTunnel calls started by SIGINT, waiting in pool.end
    sigints,       \* termination signals delivered
    proc,          \* "running", "exited" (process.exit) or "crashed"
    calls          \* tool calls accepted

vars == <<sshTunnel, tunnels, idleTimer, liveTimers, pool, inv,
          timerClosers, sigClosers, sigints, proc, calls>>

IdleCall ==
    [pc |-> "idle", op |-> NULL, arg |-> <<>>, stmt |-> <<>>, attempt |-> 0,
     execs |-> 0, teardowns |-> 0, opens |-> 0, open |-> "none",
     firstFailure |-> "no", last |-> NoOutcome, resp |-> NoPayload]

Init ==
    /\ sshTunnel = None
    /\ tunnels = [t \in {} |-> 0]
    /\ idleTimer = None
    /\ liveTimers = {}
    /\ pool = NULL
    /\ inv = [i \in Procs |-> IdleCall]
    /\ timerClosers = 0
    /\ sigClosers = 0
    /\ sigints = 0
    /\ proc = "running"
    /\ calls = 0

\* ----------------------------------------------------------------- helpers
\* smallest positive integer outside S
FreshId(S) == CHOOSE n \in 1..(Cardinality(S) + 1) :
                  n \notin S /\ \A m \in 1..(Cardinality(S) + 1) : m \notin S => n <= m

\* a server whose port is released and a connection that is closed are gone
Collect(f) ==
    LET keep == {t \in DOMAIN f : f[t].listener \/ f[t].conn # "closed"}
    IN  [t \in keep |-> f[t]]

\* the local port is taken by a listening server
PortBound == \E t \in DOMAIN tunnels : tunnels[t].listener

\* a query can only succeed through a listening server whose SSH connection
\* is up, on a pool that has not been ended
Healthy ==
    /\ pool = "open"
    /\ \E t \in DOMAIN tunnels : tunnels[t].listener /\ tunnels[t].conn = "open"

\* the outcome of the try block of closeTunnel: nothing thrown, server.close()
\* thrown (conn.end() skipped), or conn.end() thrown
CloseFaults == {"none", "server", "conn"}

\* conn.end() on a connection
EndConn(c) == IF c = "open" THEN "ending" ELSE c

\* the servers and connections after the if (sshTunnel) block of closeTunnel
TunnelsAfterClose(fault) ==
    IF sshTunnel = None THEN tunnels
    ELSE Collect([tunnels EXCEPT ![sshTunnel] =
            [listener |-> IF fault = "server" THEN @.listener ELSE FALSE,
             conn     |-> IF fault = "none" THEN EndConn(@.conn) ELSE @.conn]])

\* ensurePool
ensurePool == IF pool = NULL THEN "open" ELSE pool

\* resetIdleTimer without the clearTimeout
resetIdleTimer_noClear(live) ==
    [timer |-> FreshId(live), live |-> live \cup {FreshId(live)}]

\* resetIdleTimer when a timer is pending keeps it
resetIdleTimer_keep(live) ==
    IF idleTimer \in live
    THEN [timer |-> idleTimer, live |-> live]
    ELSE [timer |-> FreshId(live), live |-> live \cup {FreshId(live)}]

\* resetIdleTimer: the timer it leaves in idleTimer and the timers then live.
\* setTimeout returns a new timer, distinct from the one just cleared.
resetIdleTimer(live) ==
    LET cleared == live \ {idleTimer}
    IN  [timer |-> FreshId(live), live |-> cleared \cup {FreshId(live)}]

\* a retry loop instead of one retry
Retryable_always(rec) == TRUE

\* the execution of queryFn that sits in the try block of runQuery; the one
\* in the catch block has no handler around it
Retryable(rec) == rec.attempt = 1

\* the tool call answers
Answer(rec, payload) == [rec EXCEPT !.pc = "done", !.resp = payload]

\* The handler's return and the sending of its response run in the turn of
\* the event loop that produced the answer: nothing else runs in between.
Running == proc = "running" /\ \A i \in Procs : inv[i].pc # "done"

\* ------------------------------------------------- pieces of the handlers
\* dbClient.query up to its await on pool.execute
Dispatch(i, rec) ==
    /\ inv' = [inv EXCEPT ![i] = [rec EXCEPT !.pc = "query", !.execs = @ + 1]]
    /\ pool' = ensurePool

\* openTunnel with the handle null, up to its await on createTunnel; the key
\* file is read before the try block
OpenTunnel(i, rec) ==
    \E keyReadable \in BOOLEAN :
        inv' = [inv EXCEPT ![i] =
                  IF keyReadable
                  THEN [rec EXCEPT !.pc = "opening", !.opens = @ + 1, !.open = "pending"]
                  ELSE Answer([rec EXCEPT !.open = "failed"], CatchToolError(ErrKeyFile))]

\* closeTunnel up to its await: the timer is cleared
CloseTimer(fired) ==
    /\ liveTimers' = (liveTimers \ fired) \ {idleTimer}
    /\ idleTimer' = None

\* closeTunnel after its await: the if (sshTunnel) block
CloseHandle ==
    \E fault \in CloseFaults :
        /\ tunnels' = TunnelsAfterClose(fault)
        /\ sshTunnel' = None

\* ------------------------------------------------------------ tool calls
\* the handler of a tools/call request, from its switch to its first await
\* on I/O
CallTool(i, name, arg) ==
    LET rec == [IdleCall EXCEPT !.op = name, !.arg = arg, !.attempt = 1]
        run == [rec EXCEPT !.stmt = StatementOf(name, arg)]
    IN  CASE name \notin ToolNames ->
               /\ inv' = [inv EXCEPT ![i] = Answer(rec, CatchToolError(ErrUnknown))]
               /\ pool' = pool
          [] name = "read_query" /\ ~isReadOnlyQuery(arg) ->
               /\ inv' = [inv EXCEPT ![i] = Answer(rec, CatchToolError(ErrValidation))]
               /\ pool' = pool
          [] OTHER ->
               IF sshTunnel # None
               THEN Dispatch(i, run)
               ELSE OpenTunnel(i, run) /\ pool' = pool

\* a request arrives
Start(i) ==
    /\ Running
    /\ inv[i].pc = "idle"
    /\ \A j \in Procs : j < i => inv[j].pc # "idle"
    /\ calls < MaxCalls
    /\ calls' = calls + 1
    /\ \E name \in RequestNames : \E arg \in ArgsOf(name) : CallTool(i, name, arg)
    /\ UNCHANGED <<sshTunnel, tunnels, idleTimer, liveTimers,
                   timerClosers, sigClosers, sigints, proc>>

\* createTunnel resolves: the server listens on the local port, the SSH
\* connection is up; the handle is set and the query goes out
OpenResolve(i) ==
    /\ Running
    /\ inv[i].pc = "opening"
    /\ ~PortBound
    /\ LET t == FreshId(DOMAIN tunnels)
       IN  /\ tunnels' = [x \in DOMAIN tunnels \cup {t} |->
                            IF x = t THEN [listener |-> TRUE, conn |-> "open"]
                                     ELSE tunnels[x]]
           /\ sshTunnel' = t
    /\ Dispatch(i, [inv[i] EXCEPT !.open = "ok"])
    /\ UNCHANGED <<idleTimer, liveTimers, timerClosers, sigClosers, sigints, proc, calls>>

\* a plausible slip: ensureConnection drops the result of openTunnel, and the
\* query goes out after a failed establishment
OpenReject_ignored(i) ==
    /\ Running
    /\ inv[i].pc = "opening"
    /\ Dispatch(i, [inv[i] EXCEPT !.open = "failed"])
    /\ UNCHANGED <<sshTunnel, tunnels, idleTimer, liveTimers,
                   timerClosers, sigClosers, sigints, proc, calls>>

\* createTunnel rejects (authentication, network, port in use): openTunnel
\* returns false and ensureConnection throws
OpenReject(i) ==
    /\ Running
    /\ inv[i].pc = "opening"
    /\ inv' = [inv EXCEPT ![i] =
                 Answer([@ EXCEPT !.open = "failed"], CatchToolError(ErrTunnel))]
    /\ UNCHANGED <<sshTunnel, tunnels, idleTimer, liveTimers, pool,
                   timerClosers, sigClosers, sigints, proc, calls>>

\* queryFn resolves in runQuery
QueryOk(i) ==
    /\ Running
    /\ inv[i].pc = "query"
    /\ inv[i].op # "connect_db"
    /\ Healthy
    /\ idleTimer' = resetIdleTimer(liveTimers).timer
    /\ liveTimers' = resetIdleTimer(liveTimers).live
    /\ inv' = [inv EXCEPT ![i] = Answer([@ EXCEPT !.last = OkOutcome], RowsPayload)]
    /\ UNCHANGED <<sshTunnel, tunnels, pool, timerClosers, sigClosers, sigints, proc, calls>>

\* testConnection settles in connect_db: a failure becomes false
TestConnectionDone(i) ==
    /\ Running
    /\ inv[i].pc = "query"
    /\ inv[i].op = "connect_db"
    /\ \E isConnected \in BOOLEAN :
         /\ isConnected => Healthy
         /\ inv' = [inv EXCEPT ![i] =
                      Answer(@, StatusPayload(isConnected,
                                   IF sshTunnel # None THEN "open" ELSE "closed"))]
    /\ idleTimer' = resetIdleTimer(liveTimers).timer
    /\ liveTimers' = resetIdleTimer(liveTimers).live
    /\ UNCHANGED <<sshTunnel, tunnels, pool, timerClosers, sigClosers, sigints, proc, calls>>

\* queryFn rejects in the try block with a dead-connection error: closeTunnel
\* starts, and when there is no pool to end it runs through to the reopen
QueryFailTransient(i) ==
    /\ Running
    /\ inv[i].pc = "query"
    /\ inv[i].op # "connect_db"
    /\ \E error \in QueryErrors :
         /\ Retryable(inv[i]) /\ isTransient(error)
         /\ LET rec == [inv[i] EXCEPT !.attempt = 2, !.teardowns = @ + 1,
                                      !.firstFailure = FailureClass(error)]
            IN  /\ CloseTimer({})
                /\ IF pool # NULL
                   THEN /\ pool' = "closed"
                        /\ inv' = [inv EXCEPT ![i] = [rec EXCEPT !.pc = "closing"]]
                        /\ UNCHANGED <<sshTunnel, tunnels>>
                   ELSE /\ pool' = pool
                        /\ CloseHandle
                        /\ OpenTunnel(i, rec)
    /\ UNCHANGED <<timerClosers, sigClosers, sigints, proc, calls>>

\* queryFn rejects and the error leaves runQuery: any other error in the try
\* block, any error of the retry
QueryFailSurface(i) ==
    /\ Running
    /\ inv[i].pc = "query"
    /\ inv[i].op # "connect_db"
    /\ \E error \in QueryErrors :
         /\ ~(Retryable(inv[i]) /\ isTransient(error))
         /\ inv' = [inv EXCEPT ![i] =
                      Answer([@ EXCEPT !.firstFailure =
                                           IF @ = "no" THEN FailureClass(error) ELSE @,
                                       !.last = error],
                             CatchToolError(error))]
    /\ UNCHANGED <<sshTunnel, tunnels, idleTimer, liveTimers, pool,
                   timerClosers, sigClosers, sigints, proc, calls>>

\* pool.end resolves in the closeTunnel of a recovery: the pool reference is
\* cleared, the tunnel closed, and ensureConnection opens again
RecoveryCloseResolve(i) ==
    /\ Running
    /\ inv[i].pc = "closing"
    /\ pool' = NULL
    /\ CloseHandle
    /\ OpenTunnel(i, inv[i])
    /\ UNCHANGED <<idleTimer, liveTimers, timerClosers, sigClosers, sigints, proc, calls>>

\* pool.end rejects in the closeTunnel of a recovery: the error leaves runQuery
RecoveryCloseReject(i) ==
    /\ Running
    /\ inv[i].pc = "closing"
    /\ inv' = [inv EXCEPT ![i] = Answer(@, CatchToolError(ErrPoolEnd))]
    /\ UNCHANGED <<sshTunnel, tunnels, idleTimer, liveTimers, pool,
                   timerClosers, sigClosers, sigints, proc, calls>>

\* the response is sent
Return(i) ==
    /\ proc = "running"
    /\ inv[i].pc = "done"
    /\ inv' = [inv EXCEPT ![i] = IdleCall]
    /\ UNCHANGED <<sshTunnel, tunnels, idleTimer, liveTimers, pool,
                   timerClosers, sigClosers, sigints, proc, calls>>

\* ------------------------------------------------------------- idle timer
\* a live timer fires: its callback calls closeTunnel and drops the promise
IdleTimerFire ==
    /\ Running
    /\ \E t \in liveTimers : CloseTimer({t})
    /\ IF pool # NULL
       THEN /\ pool' = "closed"
            /\ timerClosers' = timerClosers + 1
            /\ UNCHANGED <<sshTunnel, tunnels>>
       ELSE /\ CloseHandle
            /\ UNCHANGED <<pool, timerClosers>>
    /\ UNCHANGED <<inv, sigClosers, sigints, proc, calls>>

\* pool.end resolves in a closeTunnel the timer started
TimerCloseResolve ==
    /\ Running
    /\ timerClosers > 0
    /\ timerClosers' = timerClosers - 1
    /\ pool' = NULL
    /\ CloseHandle
    /\ UNCHANGED <<idleTimer, liveTimers, inv, sigClosers, sigints, proc, calls>>

\* pool.end rejects in a closeTunnel the timer started: the callback dropped
\* the promise, nothing handles the rejection, and the runtime ends the
\* process
TimerCloseReject ==
    /\ Running
    /\ timerClosers > 0
    /\ timerClosers' = timerClosers - 1
    /\ proc' = "crashed"
    /\ UNCHANGED <<sshTunnel, tunnels, idleTimer, liveTimers, pool, inv,
                   sigClosers, sigints, calls>>

\* ---------------------------------------------------------------- SIGINT
\* the signal handler: closeTunnel, then process.exit(0)
Sigint ==
    /\ Running
    /\ sigints < MaxSigints
    /\ sigints' = sigints + 1
    /\ CloseTimer({})
    /\ IF pool # NULL
       THEN /\ pool' = "closed"
            /\ sigClosers' = sigClosers + 1
            /\ UNCHANGED <<sshTunnel, tunnels, proc>>
       ELSE /\ CloseHandle
            /\ proc' = "exited"
            /\ UNCHANGED <<pool, sigClosers>>
    /\ UNCHANGED <<inv, timerClosers, calls>>

\* pool.end resolves in the closeTunnel of the signal handler
SigintCloseResolve ==
    /\ Running
    /\ sigClosers > 0
    /\ sigClosers' = sigClosers - 1
    /\ pool' = NULL
    /\ CloseHandle
    /\ proc' = "exited"
    /\ UNCHANGED <<idleTimer, liveTimers, inv, timerClosers, sigints, calls>>

\* pool.end rejects in the closeTunnel of the signal handler: process.exit(0)
\* is not reached, nothing handles the rejection of the async handler, and
\* the runtime ends the process
SigintCloseReject ==
    /\ Running
    /\ sigClosers > 0
    /\ sigClosers' = sigClosers - 1
    /\ proc' = "crashed"
    /\ UNCHANGED <<sshTunnel, tunnels, idleTimer, liveTimers, pool, inv,
                   timerClosers, sigints, calls>>

\* ------------------------------------------------- SSH connection events
\* conn 'error' on a live connection, and the 'close' the socket emits right
\* after it: both handlers clear the handle
ConnError(t) ==
    /\ Running
    /\ tunnels[t].conn = "open"
    /\ tunnels' = Collect([tunnels EXCEPT ![t].conn = "closed"])
    /\ sshTunnel' = None
    /\ UNCHANGED <<idleTimer, liveTimers, pool, inv, timerClosers, sigClosers,
                   sigints, proc, calls>>

\* conn 'close' after conn.end(): the handler clears the handle
ConnClose(t) ==
    /\ Running
    /\ tunnels[t].conn = "ending"
    /\ tunnels' = Collect([tunnels EXCEPT ![t].conn = "closed"])
    /\ sshTunnel' = None
    /\ UNCHANGED <<idleTimer, liveTimers, pool, inv, timerClosers, sigClosers,
                   sigints, proc, calls>>

Next ==
    \/ \E i \in Procs :
         \/ Start(i)
         \/ OpenResolve(i)
         \/ OpenReject(i)
         \/ QueryOk(i)
         \/ TestConnectionDone(i)
         \/ QueryFailTransient(i)
         \/ QueryFailSurface(i)
         \/ RecoveryCloseResolve(i)
         \/ RecoveryCloseReject(i)
         \/ Return(i)
    \/ IdleTimerFire
    \/ TimerCloseResolve
    \/ TimerCloseReject
    \/ Sigint
    \/ SigintCloseResolve
    \/ SigintCloseReject
    \/ \E t \in DOMAIN tunnels : ConnError(t)
    \/ \E t \in DOMAIN tunnels : ConnClose(t)

Spec == Init /\ [][Next]_vars

\* ------------------------------------------------------ argument sweep
\* the first request of a process, a read_query with any statement
ReadQueryAny ==
    /\ Running
    /\ calls = 0
    /\ calls' = 1
    /\ \E sql \in AnySql : CallTool(1, "read_query", sql)
    /\ UNCHANGED <<sshTunnel, tunnels, idleTimer, liveTimers,
                   timerClosers, sigClosers, sigints, proc>>

\* the first request of a process, a describe_table with any table name
DescribeTableAny ==
    /\ Running
    /\ calls = 0
    /\ calls' = 1
    /\ \E table \in AnyTable : CallTool(1, "describe_table", table)
    /\ UNCHANGED <<sshTunnel, tunnels, idleTimer, liveTimers,
                   timerClosers, sigClosers, sigints, proc>>

ArgNext ==
    \/ ReadQueryAny
    \/ DescribeTableAny
    \/ OpenResolve(1)

ArgSpec == Init /\ [][ArgNext]_vars

TypeOK ==
    /\ sshTunnel \in Nat
    /\ idleTimer \in Nat
    /\ pool \in {NULL, "open", "closed"}
    /\ proc \in {"running", "exited", "crashed"}
    /\ \A i \in Procs : inv[i].pc \in {"idle", "opening", "query", "closing", "done"}
    /\ \A t \in DOMAIN tunnels : tunnels[t].conn \in {"open", "ending", "closed"}

\* ============================================================ properties
\* the tools that go through runQuery
RunQueryTools == {"read_query", "list_tables", "describe_table"}

\* a call waiting on I/O
InFlight(i) == inv[i].pc \in {"opening", "query", "closing"}

\* a closeTunnel has started and has not yet cleared pool and handle
TeardownInProgress ==
    \/ timerClosers > 0
    \/ sigClosers > 0
    \/ \E i \in Procs : inv[i].pc = "closing"

\* the text of an error response
ErrorText(error) == <<"Error: ", error.message>>

\* after leading whitespace, and whatever the case, the statement begins with
\* SELECT, SHOW or DESCRIBE
BeginsWithReadVerb(sql) ==
    \E kw \in {kwSelect, kwShow, kwDescribe} : \E k \in 0..Len(sql) :
        /\ \A j \in 1..k : sql[j] \in WhiteChars
        /\ Len(sql) >= k + Len(kw)
        /\ \A j \in 1..Len(kw) : toLowerChar(sql[k + j]) = kw[j]

\* C1: tunnel singleton. With no handle, concurrent operations make one
\* createTunnel call in all: two calls are never waiting in createTunnel at
\* the same time.
C1_SingleOpenAttempt ==
    Cardinality({i \in Procs : inv[i].pc = "opening"}) <= 1

\* C2: single retry. A call executes its query function at most twice and
\* goes through at most one teardown and one reopen; a second execution
\* happens only after the first failed with a transient-connection error; a
\* call whose retry succeeded answers with the rows, and one whose retry
\* failed answers with that second failure.
C2_SingleRetry ==
    \A i \in Procs :
        /\ inv[i].execs <= 2
        /\ inv[i].teardowns <= 1
        /\ inv[i].opens <= inv[i].teardowns + 1
        /\ inv[i].execs = 2 => inv[i].teardowns = 1 /\ inv[i].firstFailure = "transient"
        /\ (inv[i].pc = "done" /\ inv[i].execs = 2 /\ inv[i].last = OkOutcome)
              => inv[i].resp = RowsPayload
        /\ (inv[i].pc = "done" /\ inv[i].execs = 2 /\ inv[i].last \in QueryErrors)
              => inv[i].resp.kind = "error" /\ inv[i].resp.text = ErrorText(inv[i].last)

\* C2 witness: a call failed once with a transient error, tore down, reopened,
\* and answers with the rows of its second execution.
C2_Witness ==
    \E i \in Procs :
        /\ inv[i].pc = "done"
        /\ inv[i].firstFailure = "transient"
        /\ inv[i].execs = 2 /\ inv[i].teardowns = 1 /\ inv[i].opens >= 1
        /\ inv[i].resp = RowsPayload

\* C3: idle timeout. Once a tunnel is open and no operation or teardown is in
\* progress, an idle timer is pending that will tear it down, however the
\* operation that opened it ended.
C3_OpenTunnelHasIdleTimer ==
    (/\ proc = "running"
     /\ sshTunnel # None
     /\ \A i \in Procs : inv[i].pc = "idle"
     /\ ~TeardownInProgress)
        => idleTimer \in liveTimers

\* C4: a pool exists only while a tunnel handle exists.
C4_SessionImpliesTunnel == pool # NULL => sshTunnel # None

\* C5: no query is dispatched while a teardown is in progress.
C5_NoDispatchDuringTeardown ==
    [][\A i \in Procs : inv'[i].execs > inv[i].execs => ~TeardownInProgress]_vars

\* C6: a first execution that fails with an error outside the transient class
\* is answered at once with that error, after one execution, with no teardown
\* and no reopen, and handle, pool, servers, connections and idle timer are
\* what they were.
C6_NonTransientLeavesConnection ==
    [][\A i \in Procs :
         (/\ inv[i].pc = "query"
          /\ inv[i].op \in RunQueryTools
          /\ inv[i].firstFailure = "no"
          /\ inv'[i].firstFailure = "other")
            => /\ inv'[i].pc = "done"
               /\ inv'[i].last \in QueryErrors \ TransientErrors
               /\ inv'[i].resp.kind = "error"
               /\ inv'[i].resp.text = ErrorText(inv'[i].last)
               /\ inv'[i].execs = 1
               /\ inv'[i].teardowns = 0
               /\ inv'[i].opens = inv[i].opens
               /\ UNCHANGED <<sshTunnel, tunnels, pool, idleTimer, liveTimers>>]_vars

\* C6 witness: a call is answered with a non-transient error after one
\* execution while the tunnel, the pool and a pending idle timer are in place.
C6_Witness ==
    \E i \in Procs :
        /\ inv[i].pc = "done"
        /\ inv[i].firstFailure = "other"
        /\ inv[i].execs = 1 /\ inv[i].teardowns = 0
        /\ sshTunnel # None /\ pool = "open" /\ idleTimer \in liveTimers

\* C7: after the SSH connection of a tunnel has closed on its own, the handle
\* no longer refers to that tunnel and its server no longer holds the local
\* port, so that the next establishment can bind it.
C7_DroppedTunnelFreesPort ==
    \A t \in DOMAIN tunnels :
        tunnels[t].conn = "closed" => sshTunnel # t /\ ~tunnels[t].listener

\* C8: a read_query whose statement does not begin with SELECT, SHOW or
\* DESCRIBE is answered with the validation error, dispatches nothing, opens
\* nothing, and leaves handle, servers, pool and idle timer as they were.
C8_RejectedQueryDoesNoIO ==
    [][\A i \in Procs :
         (/\ inv[i].pc = "idle"
          /\ inv'[i].pc # "idle"
          /\ inv'[i].op = "read_query"
          /\ ~BeginsWithReadVerb(inv'[i].arg))
            => /\ inv'[i].pc = "done"
               /\ inv'[i].resp.kind = "error"
               /\ inv'[i].resp.text = ErrorText(ErrValidation)
               /\ inv'[i].execs = 0
               /\ inv'[i].opens = 0
               /\ UNCHANGED <<sshTunnel, tunnels, pool, idleTimer, liveTimers>>]_vars

\* C8 witness: a read_query that only contains a read verb further in is
\* answered with the validation error while no tunnel and no pool exist.
C8_Witness ==
    \E i \in Procs :
        /\ inv[i].pc = "done"
        /\ inv[i].op = "read_query"
        /\ inv[i].arg = sqlHidden
        /\ inv[i].resp.text = ErrorText(ErrValidation)
        /\ sshTunnel = None /\ pool = NULL /\ tunnels = [t \in {} |-> 0]

\* C9: every call is answered. A process that was sent no termination signal
\* never ends while a call is waiting for its answer.
C9_EveryCallAnswered ==
    (proc # "running" /\ sigints = 0) => \A i \in Procs : ~InFlight(i)

\* C10: a call whose tunnel establishment failed is answered with the "could
\* not establish tunnel" failure.
C10_FailedOpenReported ==
    \A i \in Procs :
        (inv[i].pc = "done" /\ inv[i].open = "failed")
            => inv[i].resp.kind = "error" /\ inv[i].resp.text = ErrorText(ErrTunnel)

\* C11: teardown is best-effort. No error of a close leaves closeTunnel: no
\* call is answered with the error of pool.end, and the process never ends on
\* a rejection of closeTunnel, so that a termination signal always reaches
\* process.exit.
C11_TeardownSuppressesErrors ==
    /\ proc # "crashed"
    /\ \A i \in Procs :
           inv[i].pc = "done" /\ inv[i].resp.kind = "error"
               => inv[i].resp.text # ErrorText(ErrPoolEnd)

\* the first word of a statement: after trim and toLowerCase, the characters
\* up to the first one that is not a letter, a digit or an underscore
LeadingWord(sql) ==
    LET t == toLowerCase(trim(sql))
        n == CHOOSE k \in 0..Len(t) :
                 /\ \A j \in 1..k : t[j] \in IdentChars
                 /\ k < Len(t) => t[k + 1] \notin IdentChars
    IN  SubSeq(t, 1, n)

\* C12: read-only boundary. A read_query statement is dispatched to the
\* database only if its first word is exactly SELECT, SHOW or DESCRIBE.
C12_OnlyReadKeywordsReachSession ==
    \A i \in Procs :
        (inv[i].op = "read_query" /\ inv[i].execs > 0)
            => LeadingWord(inv[i].arg) \in {kwSelect, kwShow, kwDescribe}

\* C13: connect_db from idle. The tunnel value of a connect_db answer is
\* "open" exactly when the handle is set at the time the answer is produced;
\* and when connect_db is the first request of a process that received no
\* signal and its test query went through, it has opened exactly one tunnel,
\* which the handle holds, and answers connected = true, tunnel = "open".
C13_ConnectFromIdle ==
    \A i \in Procs :
        (inv[i].pc = "done" /\ inv[i].op = "connect_db" /\ inv[i].resp.kind = "result")
            => /\ inv[i].resp.tunnel = "open" <=> sshTunnel # None
               /\ inv[i].resp.tunnel = "closed" <=> sshTunnel = None
               /\ (calls = 1 /\ sigints = 0 /\ inv[i].resp.connected)
                     => /\ inv[i].opens = 1
                        /\ inv[i].execs = 1
                        /\ inv[i].resp.tunnel = "open"
                        /\ DOMAIN tunnels = {sshTunnel}
                        /\ tunnels[sshTunnel] = [listener |-> TRUE, conn |-> "open"]
                        /\ pool = "open"

\* C13 witness: the first request, a connect_db, answers connected = true and
\* tunnel = "open" with the one tunnel it opened.
C13_Witness ==
    \E i \in Procs :
        /\ inv[i].pc = "done" /\ inv[i].op = "connect_db"
        /\ calls = 1 /\ sigints = 0
        /\ inv[i].opens = 1
        /\ inv[i].resp = StatusPayload(TRUE, "open")
        /\ sshTunnel # None

\* the text after "DESCRIBE " in the statement of a describe_table call
Embedded(i) == SubSeq(inv[i].stmt, Len(stmtDescribe) + 1, Len(inv[i].stmt))

\* r is s with the characters outside [A-Za-z0-9_] deleted in place: the
\* k-th character of s inside the class is the character of r at the rank
\* of k among them
DeletedInPlace(s, r) ==
    LET in == {k \in 1..Len(s) : s[k] \in IdentChars}
    IN  /\ Len(r) = Cardinality(in)
        /\ \A k \in in : r[Cardinality({j \in in : j <= k})] = s[k]

\* C14: identifier sanitization. The statement of a describe_table call is
\* "DESCRIBE " followed by the table name with every character outside
\* [A-Za-z0-9_] deleted in place; what is embedded holds characters of the
\* class only, and sanitizing it again changes nothing.
C14_SanitizedIdentifier ==
    \A i \in Procs :
        (inv[i].op = "describe_table" /\ inv[i].pc # "idle")
            => /\ startsWith(inv[i].stmt, stmtDescribe)
               /\ Range(Embedded(i)) \subseteq IdentChars
               /\ DeletedInPlace(inv[i].arg, Embedded(i))
               /\ sanitizeTableName(Embedded(i)) = Embedded(i)
               /\ sanitizeTableName(sanitizeTableName(inv[i].arg))
                      = sanitizeTableName(inv[i].arg)

\* C14 witness: a describe_table whose table name holds several characters
\* outside the class has been dispatched with the characters inside it.
C14_Witness ==
    \E i \in Procs :
        /\ inv[i].op = "describe_table" /\ inv[i].pc = "query" /\ inv[i].execs = 1
        /\ Cardinality({k \in 1..Len(inv[i].arg) : inv[i].arg[k] \notin IdentChars}) >= 2
        /\ Embedded(i) # <<>>

\* C15: single idle timer. At most one timer is scheduled and neither fired
\* nor cancelled, and it is the one idleTimer holds.
C15_SingleIdleTimer ==
    /\ Cardinality(liveTimers) <= 1
    /\ liveTimers \subseteq {idleTimer}

\* C15 witness: the second call of the process has reset the timer while the
\* timer of the first was pending, and the new timer is the only one live.
C15_Witness ==
    /\ idleTimer = 2
    /\ liveTimers = {2}
    /\ calls = 2

C17_DispatchBehindTunnel ==
    [][/\ \A i \in Procs : inv'[i].execs > inv[i].execs => sshTunnel' # None
       /\ (pool = NULL /\ pool' # NULL) => sshTunnel' # None]_vars

\* C17 witness: the retry of a call is in flight on a new pool behind the
\* tunnel its recovery opened.
C17_Witness ==
    \E i \in Procs :
        /\ inv[i].pc = "query" /\ inv[i].execs = 2 /\ inv[i].teardowns = 1
        /\ inv[i].open = "ok"
        /\ sshTunnel # None
        /\ pool = "open"

\* C18: a stale disconnect signal is harmless. A step in which the SSH
\* connection of a tunnel goes to closed (its 'close' or 'error' handler
\* runs) while the handle holds another tunnel leaves the handle as it was.
C18_StaleSignalKeepsHandle ==
    [][\A t \in DOMAIN tunnels :
         (/\ tunnels[t].conn # "closed"
          /\ t \notin DOMAIN tunnels' \/ tunnels'[t].conn = "closed"
          /\ sshTunnel # None
          /\ sshTunnel # t)
            => sshTunnel' = sshTunnel]_vars

\* C19: no leaked listener. At most one server is bound to the local port,
\* and while the handle is null no server of an earlier tunnel is listening
\* and no SSH connection of an earlier tunnel is open.
C19_NoLeakedListener ==
    /\ Cardinality({t \in DOMAIN tunnels : tunnels[t].listener}) <= 1
    /\ sshTunnel = None
          => \A t \in DOMAIN tunnels :
                 ~tunnels[t].listener /\ tunnels[t].conn # "open"

\* C20: idle teardown never hits work in flight. A step in which a timer
\* fires (a live timer goes away with no call and no signal involved) is
\* taken only when no call is waiting on createTunnel, on its query or on
\* the close of its recovery.
C20_TimerFiresOnlyWhenIdle ==
    [][(/\ liveTimers # {}
        /\ liveTimers' = {}
        /\ inv' = inv
        /\ sigints' = sigints)
          => \A i \in Procs : ~InFlight(i)]_vars

====
